---- MODULE Spec2Model ----
(***************************************************************************)
(* rcstr: RcStr(Rc<String>), a reference counted string that acts like a   *)
(* str slice.  The model keeps the heap of Rc boxes (strong count and the  *)
(* owned String), the live handles, and a HashSet<RcStr> as used by the    *)
(* crate-level example.  Strings are sequences of bytes.                   *)
(***************************************************************************)
EXTENDS Integers, Sequences, FiniteSets, TLC

\* ---- bounds -------------------------------------------------------------
MaxLen == 2         \* longest text compared / hashed / formatted
MaxTextLen == 1     \* longest text given to new in the lifecycle runs
MaxHandles == 3     \* handle slots (values of type RcStr alive at once)
MaxOperands == 2    \* handle slots in the runs about operations on handles
MaxBufs == 2        \* heap slots for Rc boxes
NBuckets == 2       \* buckets of the hash table
MaxSeed == 1        \* hasher seeds 0..MaxSeed (the set's BuildHasher)

\* bytes: 34 is the double quote (escaped by Debug), 97 is 'a'
Chars == {34, 97}
Strings == UNION {[1..n -> Chars] : n \in 0..MaxLen}
Texts == UNION {[1..n -> Chars] : n \in 0..MaxTextLen}
\* texts of one letter only, for the runs where only the sharing matters
Plain == UNION {[1..n -> {97}] : n \in 0..MaxTextLen}
Seeds == 0..MaxSeed
BufIds == 1..MaxBufs
BucketIds == 0..(NBuckets - 1)

VARIABLES
  heap,      \* BufIds -> [live, strong, value]: the RcBox<String> at each address
  handles,   \* HandleIds -> buffer the handle points to, 0 when the slot holds no handle
  buckets,   \* BucketIds -> set of handles owned by the HashSet<RcStr>
  seed,      \* the seed of the set's hasher
  given,     \* BufIds -> the value passed to new when the box was allocated (history)
  last       \* the most recent operation and what it returned

vars == <<heap, handles, buckets, seed, given, last>>

HandleIds == DOMAIN handles

\* ---- std: Hasher, str ---------------------------------------------------
Write_u8(st, b) == (st * 31 + b) % 256

RECURSIVE WriteBytes(_, _)
WriteBytes(st, bytes) ==
  IF bytes = <<>> THEN st
  ELSE WriteBytes(Write_u8(st, Head(bytes)), Tail(bytes))

\* impl Hash for str: state.write(bytes); state.write_u8(0xff)
StrHash(sd, s) == Write_u8(WriteBytes(sd, s), 255)

\* impl PartialEq for str: same length and same bytes
StrEq(s, t) == Len(s) = Len(t) /\ \A i \in 1..Len(s) : s[i] = t[i]

\* first difference among bytes i..n of s and t, 0 when there is none
RECURSIVE MemCmp(_, _, _, _)
MemCmp(s, t, i, n) ==
  IF i > n THEN 0
  ELSE IF s[i] # t[i] THEN s[i] - t[i]
  ELSE MemCmp(s, t, i + 1, n)

\* impl Ord for str: memcmp over the common prefix, then the lengths
StrCmp(s, t) ==
  LET n == IF Len(s) < Len(t) THEN Len(s) ELSE Len(t)
      c == MemCmp(s, t, 1, n)
      d == IF c # 0 THEN c ELSE Len(s) - Len(t)
  IN IF d < 0 THEN "Less" ELSE IF d > 0 THEN "Greater" ELSE "Equal"

\* str[..]
StrIndexFull(s) == SubSeq(s, 1, Len(s))

\* impl Display for str with the default format spec: the text itself
StrDisplayFmt(s, f) == f \o s

EscapeDebug(c) == IF c = 34 \/ c = 92 THEN <<92, c>> ELSE <<c>>

RECURSIVE EscapeAll(_)
EscapeAll(s) == IF s = <<>> THEN <<>> ELSE EscapeDebug(Head(s)) \o EscapeAll(Tail(s))

\* impl Debug for str: quote, escaped chars, quote
StrDebugFmt(s, f) == f \o <<34>> \o EscapeAll(s) \o <<34>>

\* ---- std: Rc<String> ----------------------------------------------------
StringFrom(value) == [i \in 1..Len(value) |-> value[i]]

RcNew(hp, b, s) == [hp EXCEPT ![b] = [live |-> TRUE, strong |-> 1, value |-> s]]

RcClone(hp, b) == [hp EXCEPT ![b].strong = @ + 1]

\* bug: the box is freed by whichever handle is dropped first
RcDrop_eager(hp, b) == [hp EXCEPT ![b] = [live |-> FALSE, strong |-> 0, value |-> <<>>]]

RcDrop(hp, b) ==
  IF hp[b].strong = 1
  THEN [hp EXCEPT ![b] = [live |-> FALSE, strong |-> 0, value |-> <<>>]]
  ELSE [hp EXCEPT ![b].strong = @ - 1]

\* Rc<T: Eq>::eq: ptr_eq short cut, else the contents
RcEq(hp, x, y) == x = y \/ StrEq(hp[x].value, hp[y].value)

RcPartialCmp(hp, x, y) == <<StrCmp(hp[x].value, hp[y].value)>>

RcHash(hp, sd, b) == StrHash(sd, hp[b].value)

\* ---- RcStr --------------------------------------------------------------
FreeBufs(hp) == {b \in BufIds : ~hp[b].live}

\* the allocator hands out the lowest free address
Alloc(hp) == CHOOSE b \in FreeBufs(hp) : \A c \in FreeBufs(hp) : b <= c

\* bug: new interns, handing out a live box of equal content when there is one
RcStrNew_intern(hp, hs, dst, b, value) ==
  LET same == {c \in BufIds : hp[c].live /\ hp[c].value = value}
  IN IF same = {}
     THEN [heap |-> RcNew(hp, b, value), handles |-> [hs EXCEPT ![dst] = b]]
     ELSE LET c == CHOOSE x \in same : TRUE
          IN [heap |-> RcClone(hp, c), handles |-> [hs EXCEPT ![dst] = c]]

RcStrNew(hp, hs, dst, b, value) ==
  [heap |-> RcNew(hp, b, StringFrom(value)), handles |-> [hs EXCEPT ![dst] = b]]

\* bug: clone copies the String into a box of its own
RcStrClone_copy(hp, hs, src, dst) ==
  IF FreeBufs(hp) = {}
  THEN [heap |-> RcClone(hp, hs[src]), handles |-> [hs EXCEPT ![dst] = hs[src]]]
  ELSE [heap |-> RcNew(hp, Alloc(hp), hp[hs[src]].value),
        handles |-> [hs EXCEPT ![dst] = Alloc(hp)]]

RcStrClone(hp, hs, src, dst) ==
  [heap |-> RcClone(hp, hs[src]), handles |-> [hs EXCEPT ![dst] = hs[src]]]

\* bug: dropping a handle empties the String the other handles still share
RcStrDrop_clear(hp, hs, h) ==
  [heap |-> [RcDrop(hp, hs[h]) EXCEPT ![hs[h]].value = <<>>],
   handles |-> [hs EXCEPT ![h] = 0]]

RcStrDrop(hp, hs, h) ==
  [heap |-> RcDrop(hp, hs[h]), handles |-> [hs EXCEPT ![h] = 0]]

\* bug: the view starts one byte late
RcStrDeref_tail(hp, hs, h) ==
  IF hp[hs[h]].value = <<>> THEN <<>> ELSE Tail(hp[hs[h]].value)

RcStrDeref(hp, hs, h) == StrIndexFull(hp[hs[h]].value)

RcStrBorrow(hp, hs, h) == StrIndexFull(hp[hs[h]].value)

RcStrAsRef(hp, hs, h) == StrIndexFull(hp[hs[h]].value)

\* bug: equality of the pointers only
RcStrEq_ptr(hp, hs, a, b) == hs[a] = hs[b]

RcStrEq(hp, hs, a, b) == RcEq(hp, hs[a], hs[b])

RcStrPartialCmp(hp, hs, a, b) == RcPartialCmp(hp, hs[a], hs[b])

\* bug: ordering of the pointers
RcStrCmp_addr(hp, hs, a, b) ==
  IF hs[a] < hs[b] THEN "Less" ELSE IF hs[a] > hs[b] THEN "Greater" ELSE "Equal"

RcStrCmp(hp, hs, a, b) ==
  StrCmp(StrIndexFull(RcStrDeref(hp, hs, a)), StrIndexFull(RcStrDeref(hp, hs, b)))

\* bug: hashes the address of the box
RcStrHash_addr(hp, hs, sd, h) == Write_u8(sd, hs[h])

\* bug: hashes the bytes as a [u8] slice, length first and no 0xff
RcStrHash_slice(hp, hs, sd, h) ==
  WriteBytes(Write_u8(sd, Len(hp[hs[h]].value)), hp[hs[h]].value)

RcStrHash(hp, hs, sd, h) == RcHash(hp, sd, hs[h])

\* bug: the derived Debug, which prints RcStr("...")
RcStrDebugFmt_derived(hp, hs, h, f) ==
  StrDebugFmt(hp[hs[h]].value, f \o <<82, 99, 83, 116, 114, 40>>) \o <<41>>

RcStrDebugFmt(hp, hs, h, f) == StrDebugFmt(StrIndexFull(RcStrDeref(hp, hs, h)), f)

RcStrDisplayFmt(hp, hs, h, f) == StrDisplayFmt(StrIndexFull(RcStrDeref(hp, hs, h)), f)

\* ---- HashSet<RcStr> -----------------------------------------------------
SetElems(bk) == UNION {bk[i] : i \in BucketIds}

HashSetInsert(hp, hs, bk, sd, h) ==
  LET i == RcStrHash(hp, hs, sd, h) % NBuckets
  IN IF \E e \in bk[i] : RcStrEq(hp, hs, h, e)
     THEN [heap |-> RcDrop(hp, hs[h]), handles |-> [hs EXCEPT ![h] = 0],
           buckets |-> bk, flag |-> FALSE]
     ELSE [heap |-> hp, handles |-> hs,
           buckets |-> [bk EXCEPT ![i] = @ \cup {h}], flag |-> TRUE]

\* contains::<str>(t): hash t as a str, compare t with each key's borrow()
HashSetContainsStr(hp, hs, bk, sd, t) ==
  \E e \in bk[StrHash(sd, t) % NBuckets] : StrEq(t, RcStrBorrow(hp, hs, e))

\* contains::<RcStr>(&q): hash q as an RcStr, compare with RcStr's ==
HashSetContainsRc(hp, hs, bk, sd, q) ==
  \E e \in bk[RcStrHash(hp, hs, sd, q) % NBuckets] : RcStrEq(hp, hs, q, e)

\* ---- state --------------------------------------------------------------
EmptyHeap == [b \in BufIds |-> [live |-> FALSE, strong |-> 0, value |-> <<>>]]

NoOp == [op |-> "init", a |-> 0, b |-> 0, arg |-> <<>>, flag |-> FALSE,
         ord |-> "none", pord |-> <<>>, out |-> <<>>, num |-> 0]

Live(h) == handles[h] # 0
Local(h) == Live(h) /\ h \notin SetElems(buckets)
FreeHandles == {h \in HandleIds : handles[h] = 0}
NextHandle == CHOOSE h \in FreeHandles : \A g \in FreeHandles : h <= g

Init ==
  /\ heap = EmptyHeap
  /\ handles = [h \in 1..MaxHandles |-> 0]
  /\ buckets = [i \in BucketIds |-> {}]
  /\ seed = 0
  /\ given = [b \in BufIds |-> <<>>]
  /\ last = NoOp

\* let x = RcStr::new(value)
New(value) ==
  /\ FreeHandles # {}
  /\ FreeBufs(heap) # {}
  /\ LET b == Alloc(heap)
         r == RcStrNew(heap, handles, NextHandle, b, value)
     IN /\ heap' = r.heap
        /\ handles' = r.handles
        /\ last' = [NoOp EXCEPT !.op = "new", !.a = NextHandle, !.arg = value]
        /\ given' = [given EXCEPT ![b] = value]
  /\ UNCHANGED <<buckets, seed>>

\* let y = x.clone()
Clone(h) ==
  /\ Live(h)
  /\ FreeHandles # {}
  /\ LET r == RcStrClone(heap, handles, h, NextHandle)
     IN /\ heap' = r.heap
        /\ handles' = r.handles
        /\ last' = [NoOp EXCEPT !.op = "clone", !.a = h, !.b = NextHandle]
  /\ UNCHANGED <<buckets, seed, given>>

\* drop(x)
Drop(h) ==
  /\ Local(h)
  /\ LET r == RcStrDrop(heap, handles, h)
     IN /\ heap' = r.heap
        /\ handles' = r.handles
        /\ last' = [NoOp EXCEPT !.op = "drop", !.a = h, !.num = handles[h]]
  /\ UNCHANGED <<buckets, seed, given>>

\* set.insert(x)
Insert(h) ==
  /\ Local(h)
  /\ LET r == HashSetInsert(heap, handles, buckets, seed, h)
     IN /\ heap' = r.heap
        /\ handles' = r.handles
        /\ buckets' = r.buckets
        /\ last' = [NoOp EXCEPT !.op = "insert", !.a = h, !.flag = r.flag]
  /\ UNCHANGED <<seed, given>>

\* set.contains(t) with t: &str
ContainsStr(t) ==
  /\ last' = [NoOp EXCEPT !.op = "contains_str", !.arg = t,
                !.flag = HashSetContainsStr(heap, handles, buckets, seed, t)]
  /\ UNCHANGED <<heap, handles, buckets, seed, given>>

\* set.contains(&q) with q: RcStr
ContainsRc(q) ==
  /\ Local(q)
  /\ last' = [NoOp EXCEPT !.op = "contains_rc", !.a = q,
                !.arg = RcStrDeref(heap, handles, q),
                !.flag = HashSetContainsRc(heap, handles, buckets, seed, q)]
  /\ UNCHANGED <<heap, handles, buckets, seed, given>>

Deref(h) ==
  /\ Live(h)
  /\ last' = [NoOp EXCEPT !.op = "deref", !.a = h, !.out = RcStrDeref(heap, handles, h)]
  /\ UNCHANGED <<heap, handles, buckets, seed, given>>

Borrow(h) ==
  /\ Live(h)
  /\ last' = [NoOp EXCEPT !.op = "borrow", !.a = h, !.out = RcStrBorrow(heap, handles, h)]
  /\ UNCHANGED <<heap, handles, buckets, seed, given>>

AsRef(h) ==
  /\ Live(h)
  /\ last' = [NoOp EXCEPT !.op = "as_ref", !.a = h, !.out = RcStrAsRef(heap, handles, h)]
  /\ UNCHANGED <<heap, handles, buckets, seed, given>>

\* a == b
Eq(a, b) ==
  /\ Live(a) /\ Live(b)
  /\ last' = [NoOp EXCEPT !.op = "eq", !.a = a, !.b = b,
                !.flag = RcStrEq(heap, handles, a, b)]
  /\ UNCHANGED <<heap, handles, buckets, seed, given>>

\* a.cmp(&b)
Cmp(a, b) ==
  /\ Live(a) /\ Live(b)
  /\ last' = [NoOp EXCEPT !.op = "cmp", !.a = a, !.b = b,
                !.ord = RcStrCmp(heap, handles, a, b)]
  /\ UNCHANGED <<heap, handles, buckets, seed, given>>

\* a.partial_cmp(&b)
PartialCmp(a, b) ==
  /\ Live(a) /\ Live(b)
  /\ last' = [NoOp EXCEPT !.op = "partial_cmp", !.a = a, !.b = b,
                !.pord = RcStrPartialCmp(heap, handles, a, b)]
  /\ UNCHANGED <<heap, handles, buckets, seed, given>>

\* h.hash(&mut hasher); hasher.finish()
Hash(h) ==
  /\ Live(h)
  /\ last' = [NoOp EXCEPT !.op = "hash", !.a = h,
                !.num = RcStrHash(heap, handles, seed, h)]
  /\ UNCHANGED <<heap, handles, buckets, seed, given>>

\* format!("{}", h)
Display(h) ==
  /\ Live(h)
  /\ last' = [NoOp EXCEPT !.op = "display", !.a = h,
                !.out = RcStrDisplayFmt(heap, handles, h, <<>>)]
  /\ UNCHANGED <<heap, handles, buckets, seed, given>>

\* format!("{:?}", h)
Debug(h) ==
  /\ Live(h)
  /\ last' = [NoOp EXCEPT !.op = "debug", !.a = h,
                !.out = RcStrDebugFmt(heap, handles, h, <<>>)]
  /\ UNCHANGED <<heap, handles, buckets, seed, given>>

Next ==
  \/ \E value \in Plain : New(value)
  \/ \E h \in HandleIds : Clone(h)
  \/ \E h \in HandleIds : Drop(h)
  \/ \E h \in HandleIds : Deref(h)
  \/ \E h \in HandleIds : Borrow(h)
  \/ \E h \in HandleIds : AsRef(h)

Spec == Init /\ [][Next]_vars

\* Every operation of the public interface, on fewer handles
InitAll ==
  /\ heap = EmptyHeap
  /\ handles = [h \in 1..MaxOperands |-> 0]
  /\ buckets = [i \in BucketIds |-> {}]
  /\ seed = 0
  /\ given = [b \in BufIds |-> <<>>]
  /\ last = NoOp

NextAll ==
  \/ \E value \in Plain : New(value)
  \/ \E h \in HandleIds : Clone(h)
  \/ \E h \in HandleIds : Drop(h)
  \/ \E h \in HandleIds : Deref(h)
  \/ \E h \in HandleIds : Borrow(h)
  \/ \E h \in HandleIds : AsRef(h)
  \/ \E a \in HandleIds, b \in HandleIds : Eq(a, b)
  \/ \E a \in HandleIds, b \in HandleIds : Cmp(a, b)
  \/ \E a \in HandleIds, b \in HandleIds : PartialCmp(a, b)
  \/ \E h \in HandleIds : Hash(h)
  \/ \E h \in HandleIds : Display(h)
  \/ \E h \in HandleIds : Debug(h)

SpecAll == InitAll /\ [][NextAll]_vars

\* A HashSet<RcStr> with a randomly seeded hasher, filled with RcStr::new(s)
InitSet ==
  /\ heap = EmptyHeap
  /\ handles = [h \in 1..MaxOperands |-> 0]
  /\ buckets = [i \in BucketIds |-> {}]
  /\ seed \in Seeds
  /\ given = [b \in BufIds |-> <<>>]
  /\ last = NoOp

NextSet ==
  \/ \E value \in Texts : New(value)
  \/ \E h \in HandleIds : Insert(h)
  \/ \E t \in Texts : ContainsStr(t)
  \/ \E q \in HandleIds : ContainsRc(q)
  \/ \E h \in HandleIds : Drop(h)

SpecSet == InitSet /\ [][NextSet]_vars

\* Two handles a = RcStr::new(s) and b, where b is a.clone() or RcStr::new(t)
InitOps ==
  \E s \in Strings, t \in Strings, shared \in BOOLEAN, b1 \in BufIds, b2 \in BufIds :
    /\ b1 # b2
    /\ shared => (t = s /\ b2 = CHOOSE x \in BufIds : x # b1)
    /\ LET r1 == RcStrNew(EmptyHeap, [h \in 1..MaxOperands |-> 0], 1, b1, s)
           r2 == IF shared THEN RcStrClone(r1.heap, r1.handles, 1, 2)
                 ELSE RcStrNew(r1.heap, r1.handles, 2, b2, t)
       IN /\ heap = r2.heap
          /\ handles = r2.handles
          /\ given = [b \in BufIds |-> IF b = b1 THEN s
                                       ELSE IF b = b2 /\ ~shared THEN t ELSE <<>>]
    /\ buckets = [i \in BucketIds |-> {}]
    /\ seed \in Seeds
    /\ last = NoOp

NextOps ==
  \/ \E a \in HandleIds, b \in HandleIds : Eq(a, b)
  \/ \E a \in HandleIds, b \in HandleIds : Cmp(a, b)
  \/ \E a \in HandleIds, b \in HandleIds : PartialCmp(a, b)
  \/ \E h \in HandleIds : Hash(h)
  \/ \E h \in HandleIds : Display(h)
  \/ \E h \in HandleIds : Debug(h)
  \/ \E h \in HandleIds : Deref(h)
  \/ \E h \in HandleIds : Borrow(h)
  \/ \E h \in HandleIds : AsRef(h)

SpecOps == InitOps /\ [][NextOps]_vars

\* ---- properties ---------------------------------------------------------
RefCount(b) == Cardinality({h \in HandleIds : handles[h] = b})

\* the text a handle was constructed from
Text(h) == given[handles[h]]

Inserted(t) == \E e \in SetElems(buckets) : Text(e) = t

Views == {"deref", "borrow", "as_ref"}

\* lexicographic order of byte sequences, stated directly
LexLess(s, t) ==
  \E i \in 0..Len(s) :
    /\ i <= Len(t)
    /\ \A j \in 1..i : s[j] = t[j]
    /\ \/ i = Len(s) /\ i < Len(t)
       \/ i < Len(s) /\ i < Len(t) /\ s[i + 1] < t[i + 1]

LexOrd(s, t) == IF s = t THEN "Equal" ELSE IF LexLess(s, t) THEN "Less" ELSE "Greater"

Reverse(o) == IF o = "Less" THEN "Greater" ELSE IF o = "Greater" THEN "Less" ELSE o

Quotes(s) == Cardinality({i \in 1..Len(s) : s[i] = 34})

\* C1: a lookup with a borrowed str and a lookup with a handle of the same
\* content give the same answer, which is true exactly when some inserted
\* handle was constructed from that content.
C1_HeterogeneousLookup ==
  /\ last.op = "contains_str" =>
       /\ last.flag = Inserted(last.arg)
       /\ \A q \in HandleIds : Local(q) /\ Text(q) = last.arg =>
            HashSetContainsRc(heap, handles, buckets, seed, q) = last.flag
  /\ last.op = "contains_rc" =>
       /\ last.flag = Inserted(Text(last.a))
       /\ last.flag = HashSetContainsStr(heap, handles, buckets, seed, Text(last.a))

C1_Witness ==
  /\ last.op = "contains_str" /\ last.flag
  /\ \E q \in HandleIds : Local(q) /\ Text(q) = last.arg
  /\ \E t \in Texts : ~HashSetContainsStr(heap, handles, buckets, seed, t)

\* C2: new(s) == new(t) exactly when s and t are the same text, whether the
\* two handles share one box or own two.
C2_EqIsContentEq ==
  last.op = "eq" => (last.flag <=> (Text(last.a) = Text(last.b)))

C2_Witness ==
  last.op = "eq" /\ last.flag /\ handles[last.a] # handles[last.b]

\* C3: the hash of a handle is the hash of the str it was constructed from,
\* and every live handle of equal content hashes to the same value.
C3_HashIsStrHash ==
  last.op = "hash" =>
    /\ last.num = StrHash(seed, Text(last.a))
    /\ \A h \in HandleIds : Live(h) /\ Text(h) = Text(last.a) =>
         RcStrHash(heap, handles, seed, h) = last.num

C3_Witness ==
  /\ last.op = "hash" /\ Text(last.a) # <<>>
  /\ \E h \in HandleIds : Live(h) /\ handles[h] # handles[last.a] /\ Text(h) = Text(last.a)

\* C4: cmp and partial_cmp give the lexicographic order of the two texts;
\* the order is antisymmetric and says Equal exactly when the handles are ==.
C4_OrdIsLexicographic ==
  /\ last.op = "cmp" =>
       /\ last.ord = LexOrd(Text(last.a), Text(last.b))
       /\ RcStrCmp(heap, handles, last.b, last.a) = Reverse(last.ord)
       /\ (last.ord = "Equal") <=> RcStrEq(heap, handles, last.a, last.b)
  /\ last.op = "partial_cmp" =>
       last.pord = <<LexOrd(Text(last.a), Text(last.b))>>

C4_Witness ==
  /\ last.op = "cmp" /\ last.ord = "Less"
  /\ handles[last.a] > handles[last.b]
  /\ Len(Text(last.a)) > 1 /\ Len(Text(last.b)) > 1

\* C5: the view of new(s) is s, and deref, borrow and as_ref all return it.
C5_RoundTrip ==
  last.op \in Views =>
    /\ last.out = Text(last.a)
    /\ RcStrDeref(heap, handles, last.a) = Text(last.a)
    /\ RcStrBorrow(heap, handles, last.a) = Text(last.a)
    /\ RcStrAsRef(heap, handles, last.a) = Text(last.a)

C5_Witness == last.op = "deref" /\ Len(last.out) > 1

\* C6: the share count of a box is the number of live handles that refer to
\* it, a box is allocated exactly while that number is above zero, and every
\* live handle refers to an allocated box that still holds its text.
C6_ReleasedAtLastDrop ==
  /\ \A b \in BufIds :
       /\ heap[b].strong = RefCount(b)
       /\ heap[b].live <=> RefCount(b) > 0
  /\ \A h \in HandleIds : Live(h) =>
       heap[handles[h]].live /\ heap[handles[h]].value = Text(h)

C6_Witness ==
  /\ last.op = "drop"
  /\ \E c \in HandleIds : c > last.a /\ handles[c] = last.num /\ Text(c) # <<>>
  /\ \E b \in BufIds : ~heap[b].live

\* C7: clone returns a handle to the box of the original and raises its share
\* count by one; no box is allocated, no content changes, and every other box
\* and handle is as before.
C7_CloneStep ==
  last'.op = "clone" =>
    LET b == handles[last'.a]
    IN /\ handles[last'.b] = 0
       /\ handles'[last'.b] = b
       /\ heap'[b].strong = heap[b].strong + 1
       /\ heap'[b].value = heap[b].value
       /\ \A c \in BufIds : heap'[c].live = heap[c].live
       /\ \A c \in BufIds \ {b} : heap'[c] = heap[c]
       /\ \A g \in HandleIds \ {last'.b} : handles'[g] = handles[g]

C7_CloneSharesBuffer == [][C7_CloneStep]_vars

C7_Witness ==
  /\ last.op = "clone"
  /\ handles[last.b] = handles[last.a]
  /\ \E c \in BufIds : c # handles[last.a] /\ heap[c].live

\* C8: new allocates a box that was not in use, with share count 1 and a copy
\* of the value, and leaves every other box and handle as it was; dropping a
\* handle changes no box but its own.
C8_NewStep ==
  /\ last'.op = "new" =>
       LET h == last'.a
           b == handles'[h]
       IN /\ handles[h] = 0
          /\ b # 0
          /\ ~heap[b].live /\ RefCount(b) = 0
          /\ heap'[b] = [live |-> TRUE, strong |-> 1, value |-> last'.arg]
          /\ \A c \in BufIds \ {b} : heap'[c] = heap[c]
          /\ \A g \in HandleIds \ {h} : handles'[g] = handles[g]
  /\ last'.op = "drop" =>
       \A c \in BufIds \ {last'.num} : heap'[c] = heap[c]

C8_NewIsFresh == [][C8_NewStep]_vars

C8_Witness ==
  /\ last.op = "new"
  /\ \E g \in HandleIds :
       /\ g # last.a /\ Live(g)
       /\ handles[g] # handles[last.a]
       /\ RcStrEq(heap, handles, g, last.a)

\* C9: what a live handle reads is the text its box was constructed from, and
\* no step changes the content of a box that stays allocated.
C9_ReadsGiven == \A h \in HandleIds : Live(h) => RcStrDeref(heap, handles, h) = Text(h)

C9_ContentKept ==
  \A b \in BufIds :
    (\E h \in HandleIds : handles[h] = b /\ handles'[h] = b) =>
      heap'[b].live /\ heap'[b].value = heap[b].value

C9_Immutable == []C9_ReadsGiven /\ [][C9_ContentKept]_vars

C9_Witness ==
  /\ last.op = "drop"
  /\ heap[last.num].live /\ heap[last.num].value # <<>>
  /\ \E c \in HandleIds : c < last.a /\ handles[c] = last.num

\* C10: Display writes the text itself; Debug writes what Debug of the str
\* writes: the text between two quotes with each quote escaped, nothing else.
C10_FmtIsStrFmt ==
  /\ last.op = "display" => last.out = Text(last.a)
  /\ last.op = "debug" =>
       /\ last.out = StrDebugFmt(Text(last.a), <<>>)
       /\ Head(last.out) = 34 /\ last.out[Len(last.out)] = 34
       /\ Len(last.out) = Len(Text(last.a)) + Quotes(Text(last.a)) + 2

C10_Witness ==
  last.op = "debug" /\ Quotes(Text(last.a)) > 0 /\ Len(Text(last.a)) > 1
====
